---- MODULE Spec2Model ----
(***************************************************************************)
(* A model of the gmfc101 webhook pipeline (src/core/respond_toquery.py):  *)
(* the Dedup Gate over the process-wide TTL cache `processed_casts`, the   *)
(* orchestrator handle_webhook_v2, and the Thread Reconstructor            *)
(* get_conversation_history_recursive.                                     *)
(***************************************************************************)
EXTENDS Integers, Sequences, FiniteSets, TLC

\* ------------------------------------------------------------------ bounds
\* Longest reply chain given to the Thread Reconstructor on its own.
MaxChain == 5
\* Longest only-participants chain the orchestrator is given (depth 9 > 8).
MaxLongChain == 10
\* Distinct message ids (cast hashes) delivered.
NumHashes == 3
\* Capacity of processed_casts, scaled down from maxsize=1000: the cache's
\* behaviour depends only on whether the number of live keys reaches it.
MaxSize == 2
\* Seconds the clock advances in one Tick, and the number of Ticks.
TickSeconds == 200
MaxTicks == 2
\* Webhook deliveries in one run.
MaxDeliveries == 4
\* Whitespace characters around a text given to the router.
MaxPad == 1
\* The byte limit of a reply, scaled down from limit=1000, and the byte
\* length of the truncation notice, scaled down from 50: the function's
\* behaviour depends only on where the text's bytes fall against them.
Limit == 6
NoticeBytes == 2
\* Longest text (in characters) given to truncate_to_byte_limit.
MaxTextLen == 7
MaxEpisodes == 2
MaxQueryTokens == 2
MaxConversation == 12

\* ------------------------------------------------------- program constants
\* processed_casts = TTLCache(maxsize=1000, ttl=300)
TTL == 300
\* if depth > 8
DepthLimit == 8
\* return [], 1 if dry_run else 999
FailDepthLive == 999
FailDepthDryRun == 1

None == "None"

\* ================================================================ threads
\* A reply chain is a sequence of authors, the triggering cast first and the
\* root last; cast i has a parent_hash iff i < Len(chain), and its text is i.
\* "user" is the author whose fid equals author_fid, "bot" is BOT_ACCOUNT_FID,
\* "other" is anybody else.
Authors == {"user", "bot", "other"}

RECURSIVE SeqsOfLen(_, _)
SeqsOfLen(S, n) ==
    IF n = 0 THEN {<<>>}
    ELSE {Append(s, x) : s \in SeqsOfLen(S, n - 1), x \in S}

\* The triggering cast is the one the webhook reports, so its author is the
\* author_fid handed to the reconstruction.
Chains == UNION {{<<"user">> \o s : s \in SeqsOfLen(Authors, n)} : n \in 0..(MaxChain - 1)}

ThreadInit ==
    [messages |-> <<>>, last_author_fid |-> None, conversation_started |-> FALSE,
     depth |-> 0, fetched |-> {}, raised |-> FALSE]

\* Mutant: every author counts as a participant.
is_valid_participant_anyone(current_author_fid) == TRUE

\* is_valid_participant = current_author_fid in [author_fid_str, bot_fid_str]
is_valid_participant(current_author_fid) == current_author_fid \in {"user", "bot"}

\* if last_author_fid is None or last_author_fid != current_author_fid: depth += 1
DepthAfterDescent(last_author_fid, current_author_fid, depth) ==
    IF last_author_fid = None \/ last_author_fid # current_author_fid
    THEN depth + 1 ELSE depth

\* Mutant: every participant's cast is appended.
is_different_speaker_always(last_author_fid, current_author_fid) == TRUE

\* if last_author_fid is None or last_author_fid != current_author_fid: messages.append(...)
is_different_speaker(last_author_fid, current_author_fid) ==
    last_author_fid = None \/ last_author_fid # current_author_fid

RoleOf(current_author_fid) ==
    IF current_author_fid = "user" THEN "user" ELSE "assistant"

\* build_thread(current_hash) on cast i of the chain; failAt is the cast whose
\* fetch raises (0: none). st is the closure state (messages, last_author_fid,
\* conversation_started, depth) plus the set of casts fetched so far.
RECURSIVE build_thread(_, _, _, _)
build_thread(chain, failAt, i, st) ==
    IF i = failAt
    THEN [st EXCEPT !.fetched = @ \cup {i}, !.raised = TRUE]
    ELSE
    LET cur == chain[i]
        st0 == [st EXCEPT !.fetched = @ \cup {i}]
        valid == is_valid_participant(cur)
    IN  IF st0.conversation_started /\ ~valid THEN st0
        ELSE IF ~valid THEN st0
        ELSE
        LET st1 == [st0 EXCEPT !.conversation_started = TRUE]
            st2 == IF i < Len(chain)
                   THEN build_thread(chain, failAt, i + 1,
                            [st1 EXCEPT !.depth =
                                DepthAfterDescent(st1.last_author_fid, cur, @)])
                   ELSE st1
        IN  IF st2.raised THEN st2
            ELSE IF is_different_speaker(st2.last_author_fid, cur)
            THEN [st2 EXCEPT !.messages = Append(@, [role |-> RoleOf(cur), content |-> i]),
                             !.last_author_fid = cur]
            ELSE st2

\* Mutant: the appended turns, all of them.
AllButLast_all(messages) == messages

\* messages[:-1] if messages else []
AllButLast(messages) ==
    IF messages = <<>> THEN <<>> ELSE SubSeq(messages, 1, Len(messages) - 1)

\* Mutant: the two sentinels swapped.
FailureDepth_swapped(dry_run) == IF dry_run THEN FailDepthLive ELSE FailDepthDryRun

\* return [], 1 if dry_run else 999
FailureDepth(dry_run) == IF dry_run THEN FailDepthDryRun ELSE FailDepthLive

get_conversation_history_recursive(chain, failAt, dry_run) ==
    LET st == build_thread(chain, failAt, 1, ThreadInit)
    IN  IF st.raised
        THEN [messages |-> <<>>, depth |-> FailureDepth(dry_run),
              fetched |-> st.fetched, failed |-> TRUE, appended |-> <<>>]
        ELSE [messages |-> AllButLast(st.messages), depth |-> st.depth,
              fetched |-> st.fetched, failed |-> FALSE, appended |-> st.messages]

\* ================================================================== cache
\* processed_casts = TTLCache(maxsize, ttl): the links, oldest first, each a
\* key with the time it expires (cachetools keeps them in insertion order and
\* a re-set key moves to the end).
Keys == 1..NumHashes

LinkKeys(cache) == {cache[i].key : i \in 1..Len(cache)}

\* Mutant: a plain dict, the expiry never looked at.
Contains_ignoresExpiry(cache, key, t) == key \in LinkKeys(cache)

\* `key in processed_casts`: TTLCache.__contains__, timer() < link.expires
Contains(cache, key, t) ==
    \E i \in 1..Len(cache) : cache[i].key = key /\ t < cache[i].expires

\* TTLCache.expire(time): drop the links whose time has come
Expire(cache, t) == SelectSeq(cache, LAMBDA l : t < l.expires)

\* Mutant: every new key pops the oldest link, full or not.
Evict_always(cache, key) ==
    IF key \notin LinkKeys(cache) /\ Len(cache) >= 1 THEN Tail(cache) ELSE cache

\* Cache.__setitem__: a new key in a full cache pops the oldest link first
Evict(cache, key) ==
    IF key \notin LinkKeys(cache) /\ Len(cache) >= MaxSize THEN Tail(cache) ELSE cache

\* Mutant: the mark is forgotten.
SetItem_forgets(cache, key, t) == Expire(cache, t)

\* processed_casts[key] = time.time(): TTLCache.__setitem__
SetItem(cache, key, t) ==
    LET live == Evict(Expire(cache, t), key)
    IN  Append(SelectSeq(live, LAMBDA l : l.key # key),
               [key |-> key, expires |-> t + TTL])

\* ================================================================= router
\* WorkflowRouter.route_query. A text is a sequence of characters.
Whitespace == {" ", "\t", "\n"}
LowerLetters == <<"a", "b", "c", "d", "e", "g", "h", "i", "l", "m", "n", "o", "r", "t", "u", "x", "y">>
UpperLetters == <<"A", "B", "C", "D", "E", "G", "H", "I", "L", "M", "N", "O", "R", "T", "U", "X", "Y">>

LowerChar(c) ==
    IF \E i \in 1..Len(UpperLetters) : UpperLetters[i] = c
    THEN LowerLetters[CHOOSE i \in 1..Len(UpperLetters) : UpperLetters[i] = c]
    ELSE c

UpperChar(c) ==
    IF \E i \in 1..Len(LowerLetters) : LowerLetters[i] = c
    THEN UpperLetters[CHOOSE i \in 1..Len(LowerLetters) : LowerLetters[i] = c]
    ELSE c

\* Mutant: the response is matched as it came, its letter case kept.
lower_asIs(s) == s

\* str.lower()
lower(s) == [i \in 1..Len(s) |-> LowerChar(s[i])]

\* str.strip(): leading and trailing whitespace removed
strip(s) ==
    LET inked == {i \in 1..Len(s) : s[i] \notin Whitespace}
    IN  IF inked = {} THEN <<>>
        ELSE SubSeq(s, CHOOSE i \in inked : \A j \in inked : i <= j,
                       CHOOSE i \in inked : \A j \in inked : i >= j)

\* str.isspace(): at least one character and all of them whitespace
isspace(s) == s # <<>> /\ \A i \in 1..Len(s) : s[i] \in Whitespace

\* The four labels of path_mapping, as texts.
LabelMetadata == <<"m", "e", "t", "a", "d", "a", "t", "a">>
LabelContextual == <<"c", "o", "n", "t", "e", "x", "t", "u", "a", "l">>
LabelHybrid == <<"h", "y", "b", "r", "i", "d">>
LabelIgnore == <<"i", "g", "n", "o", "r", "e">>

\* path_mapping.get(llm_response, "other")
path_mapping(llm_response) ==
    CASE llm_response = LabelMetadata -> "metadata"
      [] llm_response = LabelContextual -> "contextual"
      [] llm_response = LabelHybrid -> "hybrid"
      [] llm_response = LabelIgnore -> "ignore"
      [] OTHER -> "other"

\* route_query(query) for a query that is None (kind "null") or a text, when
\* the completion call behaves as `llm`: it raises (kind "raises"), or
\* returns a message whose content is None (kind "null") or a text. The
\* result is the path returned and the number of completion calls made; an
\* exception in the try block ends in the except clause, which returns
\* "other".
route_query(query, llm) ==
    IF query.kind = "null" \/ query.content = <<>> \/ isspace(query.content)
    THEN [path |-> "other", llm_calls |-> 0]
    ELSE IF llm.kind # "text"
    THEN [path |-> "other", llm_calls |-> 1]
    ELSE [path |-> path_mapping(lower(strip(llm.content))), llm_calls |-> 1]

\* The queries and completions route_query is run on: the labels and other
\* words, in lower, upper and title case, with whitespace around them.
upper(s) == [i \in 1..Len(s) |-> UpperChar(s[i])]
title(s) == [i \in 1..Len(s) |-> IF i = 1 THEN UpperChar(s[i]) ELSE s[i]]
Labels == {LabelMetadata, LabelContextual, LabelHybrid, LabelIgnore}
OtherWords ==
    {<<>>, <<"o", "t", "h", "e", "r">>, <<"h", "y", "b", "r", "i">>,
     <<"h", "y", "b", "r", "i", "d", ".">>, <<"h", "y", "b", "r", "i", "d", " ", "x">>,
     <<"m", "e", "t", "a", " ", "d", "a", "t", "a">>}
Pads == UNION {[1..n -> Whitespace] : n \in 0..MaxPad}
Completions ==
    {[kind |-> "raises", content |-> <<>>], [kind |-> "null", content |-> <<>>]}
    \cup {[kind |-> "text", content |-> l \o c \o r] :
            l \in Pads, r \in Pads,
            c \in UNION {{w, upper(w), title(w)} : w \in Labels \cup OtherWords}}
Queries ==
    {[kind |-> "null", content |-> <<>>]}
    \cup {[kind |-> "text", content |-> l \o c] : l \in Pads, c \in {<<>>, <<" ">>, <<"x">>, <<"x", " ">>}}

\* ============================================================= truncation
\* truncate_to_byte_limit. A text is a sequence of characters; its UTF-8
\* encoding gives one byte to an ASCII character and two to e-acute (U+00E9).
TextChars == {"a", ".", "!", "?", "e-acute"}
Utf8Width(c) == IF c = "e-acute" THEN 2 ELSE 1

\* The fixed notice " [...response too long, truncating. cc: @adrienne]",
\* scaled to NoticeBytes ASCII characters.
Notice ==
    [i \in 1..NoticeBytes |-> IF i = 1 THEN " " ELSE IF i = NoticeBytes THEN "]" ELSE "."]

\* text.encode('utf-8'): the bytes, each the k-th of the n bytes of its
\* character
RECURSIVE encode(_)
encode(text) ==
    IF text = <<>> THEN <<>>
    ELSE [k \in 1..Utf8Width(Head(text)) |-> [c |-> Head(text), k |-> k, n |-> Utf8Width(Head(text))]]
         \o encode(Tail(text))

\* bytes.decode('utf-8', 'ignore'): the characters whose bytes are all
\* there, the other bytes dropped
decode_ignore(bytes) ==
    LET whole(i) == /\ bytes[i].k = 1
                    /\ i + bytes[i].n - 1 <= Len(bytes)
                    /\ \A j \in 1..bytes[i].n : bytes[i + j - 1].k = j /\ bytes[i + j - 1].c = bytes[i].c
        starts == SelectSeq([i \in 1..Len(bytes) |-> i], whole)
    IN  [i \in 1..Len(starts) |-> bytes[starts[i]].c]

\* str.rfind(ch): the highest index (from 0) of ch, or -1
rfind(s, ch) ==
    IF \E i \in 1..Len(s) : s[i] = ch
    THEN (CHOOSE i \in 1..Len(s) : s[i] = ch /\ \A j \in (i + 1)..Len(s) : s[j] # ch) - 1
    ELSE -1

max3(a, b, c) ==
    LET ab == IF a >= b THEN a ELSE b
    IN  IF ab >= c THEN ab ELSE c

\* encoded[:working_limit]
BytePrefix(encoded, working_limit) ==
    SubSeq(encoded, 1, IF working_limit < Len(encoded) THEN working_limit ELSE Len(encoded))

\* Mutant: no room left for the notice.
WorkingLimit_noRoom(limit) == limit

\* working_limit = limit - len(notice.encode('utf-8'))
WorkingLimit(limit) == limit - Len(encode(Notice))

truncate_to_byte_limit(text, limit) ==
    IF Len(encode(text)) <= limit THEN text
    ELSE LET truncated == decode_ignore(BytePrefix(encode(text), WorkingLimit(limit)))
             last_sentence == max3(rfind(truncated, "."), rfind(truncated, "!"), rfind(truncated, "?"))
         IN  (IF last_sentence > 0 THEN SubSeq(truncated, 1, last_sentence + 1) ELSE truncated)
             \o Notice

\* The texts truncate_to_byte_limit is run on.
Texts == UNION {[1..n -> TextChars] : n \in 0..MaxTextLen}

\* ============================================================== providers
\* handle_query of the three providers. `failing` is the set of internal
\* steps that fail in the run, `content` what the completion returns when its
\* call does not fail (a text, or None: kind "null"). A result is a string (a
\* sequence of pieces) or None.
ProviderNames == {"MetadataPath", "ContextualPath", "HybridPath"}
UserNames == {"alice", "Unknown"}
CompletionContents == {"text", "null"}

StepsOf(provider) ==
    CASE provider = "MetadataPath" -> {"catalog", "tokens", "llm"}
      [] provider = "ContextualPath" -> {"search", "transcript", "context", "llm"}
      [] provider = "HybridPath" -> {"catalog", "episodes", "transcript", "tokens", "llm"}

Str(pieces) == [kind |-> "str", text |-> pieces]
NoneResult == [kind |-> "null", text |-> <<>>]
Raised == [kind |-> "raise", text |-> <<>>]

\* Mutant: the apology without the user's name.
NamedApology_anonymous(user_name) ==
    Str(<<"Sorry, I encountered an error processing your query.">>)

\* f"Sorry @{user_name}, I encountered an error processing your query."
NamedApology(user_name) ==
    Str(<<"Sorry @", user_name, ", I encountered an error processing your query.">>)

\* "Sorry, I couldn't process your request right now."
ContextualApology == Str(<<"Sorry, I couldn't process your request right now.">>)

\* "I apologize, but I encountered an error while processing your request. Please try again."
HybridApology ==
    Str(<<"I apologize, but I encountered an error while processing your request. Please try again.">>)

\* response.choices[0].message.content of a completion call
Completion(failing, content) ==
    IF "llm" \in failing THEN Raised
    ELSE IF content = "null" THEN NoneResult
    ELSE Str(<<"completion">>)

\* try: body / except Exception: return handler
TryExcept(body, handler) == IF body.kind = "raise" THEN handler ELSE body

\* MetadataPath.handle_query: a failed catalog load left self.metadata empty
\* in the constructor; everything else is inside one try block.
MetadataPath_handle_query(user_name, failing, content) ==
    TryExcept(IF "tokens" \in failing THEN Raised ELSE Completion(failing, content),
              NamedApology(user_name))

\* ContextualPath.handle_query: search_transcripts_for_similar_content,
\* find_expanded_context and get_additional_context return [], None and a
\* string on failure, and get_llm_response has its own try block.
ContextualPath_handle_query(user_name, failing, content) ==
    TryExcept(TryExcept(Completion(failing, content), ContextualApology),
              ContextualApology)

\* HybridPath.handle_query: _identify_relevant_episodes and
\* _get_transcript_context return [] and "" on failure; _check_token_count is
\* in handle_query's try block; _generate_llm_response strips the content
\* inside its own try block.
HybridPath_handle_query(user_name, failing, content) ==
    TryExcept(IF "tokens" \in failing THEN Raised
              ELSE TryExcept(IF Completion(failing, content).kind = "null" THEN Raised
                             ELSE Completion(failing, content),
                             HybridApology),
              NamedApology(user_name))

handle_query(provider, user_name, failing, content) ==
    CASE provider = "MetadataPath" -> MetadataPath_handle_query(user_name, failing, content)
      [] provider = "ContextualPath" -> ContextualPath_handle_query(user_name, failing, content)
      [] provider = "HybridPath" -> HybridPath_handle_query(user_name, failing, content)

\* ================================================================ catalog
\* _prefilter_metadata of the Metadata and Hybrid Providers, over a catalog:
\* a list of episodes, each with its id, hosts, series, title words, aired
\* date and transcript path. The tables are scaled-down copies of the
\* source's: the entries keep their order, the alias "naomi" is listed under
\* two names and one alias has two words.
name_variations ==
    <<[name |-> "dwr.eth", variants |-> {<<"dan">>, <<"dwr.eth">>}],
      [name |-> "afrochicks", variants |-> {<<"afrochicks">>, <<"naomi">>}],
      [name |-> "naomi", variants |-> {<<"naomiii">>, <<"naomi">>}],
      [name |-> "ccarella", variants |-> {<<"chris", "carella">>, <<"ccarella">>}]>>

series_variations ==
    <<[name |-> "The Hub", variants |-> {<<"hub">>, <<"the", "hub">>}],
      [name |-> "Vibe Check", variants |-> {<<"vibe", "check">>, <<"vibecheck">>}]>>

stop_words == {"the", "episode", "farcaster"}

\* The tokens a query is made of (what query.split() gives).
QueryTokens ==
    {"@Dan?", "naomi", "chris", "carella", "zed", "hub", "github", "the", "frames",
     "hello"}

\* token.lower()
LowerToken(token) == IF token = "@Dan?" THEN "@dan?" ELSE token

\* word.strip('.,?!/@')
StripToken(token) == IF token = "@dan?" THEN "dan" ELSE token

\* query_words = set(word.strip('.,?!/@') for word in query.lower().split())
query_words(query) == {StripToken(LowerToken(query[i])) : i \in 1..Len(query)}

\* `text in token`: the one-word texts a lower-cased token contains
Substrings(token) ==
    CASE token = "@dan?" -> {"@dan?", "dan"}
      [] token = "github" -> {"github", "hub"}
      [] OTHER -> {token}

\* `variant in query.lower()` for a variant of one word or of several
\* (the words of the tables are no proper prefix or suffix of a token)
InQueryText(variant, query) ==
    \E i \in 1..Len(query) :
        /\ i + Len(variant) - 1 <= Len(query)
        /\ IF Len(variant) = 1
           THEN variant[1] \in Substrings(LowerToken(query[i]))
           ELSE \A j \in 1..Len(variant) : LowerToken(query[i + j - 1]) = variant[j]

\* name_lookup[variant.lower()] = metadata_name, a later entry of
\* name_variations overwriting an earlier one
name_lookup(variant) ==
    LET entries == {i \in 1..Len(name_variations) : variant \in name_variations[i].variants}
    IN  name_variations[CHOOSE i \in entries : \A j \in entries : i >= j].name

AllVariants == UNION {name_variations[i].variants : i \in 1..Len(name_variations)}

\* The hosts of the catalog's episodes.
all_hosts(metadata) == UNION {metadata[i].hosts : i \in 1..Len(metadata)}

\* `variant in query_words`: a token is one word, so a variant with a space
\* in it is never one
mentioned_hosts(query, metadata) ==
    {name_lookup(v) : v \in {u \in AllVariants : Len(u) = 1 /\ u[1] \in query_words(query)}}
    \cup {host \in all_hosts(metadata) : host \in query_words(query)}

\* Mutant: no episode counts as selected already.
EpisodeIds_none(episodes) == {}

\* {episode.get('episode') for episode in filtered_metadata}
EpisodeIds(episodes) == {episodes[i].episode : i \in 1..Len(episodes)}

\* Step 1: the episodes with a mentioned host
host_episodes(mentioned, metadata) ==
    SelectSeq(metadata, LAMBDA e : e.hosts \cap mentioned # {})

\* all_variations: each variant and the variant with its spaces removed
\* (which, for the tables' variants, is in no query unless it is a token)
SeriesMentioned(entry, query) ==
    \E variant \in entry.variants :
        \/ Len(variant) = 1 /\ variant[1] \in query_words(query)
        \/ InQueryText(variant, query)

found_series(query) ==
    \E i \in 1..Len(series_variations) : SeriesMentioned(series_variations[i], query)

\* Step 2: for each series mentioned, in the table's order, its episodes not
\* selected by step 1
RECURSIVE series_episodes(_, _, _, _)
series_episodes(query, metadata, filtered_episode_ids, i) ==
    IF i > Len(series_variations) THEN <<>>
    ELSE (IF SeriesMentioned(series_variations[i], query)
          THEN SelectSeq(metadata, LAMBDA e : /\ e.series = series_variations[i].name
                                               /\ e.episode \notin filtered_episode_ids)
          ELSE <<>>)
         \o series_episodes(query, metadata, filtered_episode_ids, i + 1)

title_words(metadata) == (UNION {metadata[i].title : i \in 1..Len(metadata)}) \ stop_words

found_title_match(query, metadata) ==
    \E word \in query_words(query) : word \in title_words(metadata) /\ word \notin stop_words

\* Step 3: for each query word, in the order the set is iterated, the
\* episodes with the word in their title that are not selected yet
RECURSIVE matching_titles(_, _, _, _)
matching_titles(words, metadata, filtered_episode_ids, i) ==
    IF i > Len(words) THEN <<>>
    ELSE IF words[i] \in title_words(metadata) /\ words[i] \notin stop_words
    THEN LET title_episodes ==
                SelectSeq(metadata, LAMBDA e : /\ words[i] \in e.title
                                               /\ e.episode \notin filtered_episode_ids)
         IN  title_episodes
             \o matching_titles(words, metadata,
                                filtered_episode_ids \cup EpisodeIds(title_episodes), i + 1)
    ELSE matching_titles(words, metadata, filtered_episode_ids, i + 1)

\* list.sort(key=lambda x: x.get('aired_date', '')): a stable sort
RECURSIVE sort_by_aired_date(_)
sort_by_aired_date(episodes) ==
    IF episodes = <<>> THEN <<>>
    ELSE LET first == CHOOSE i \in 1..Len(episodes) :
                        /\ \A j \in 1..Len(episodes) : episodes[i].aired_date <= episodes[j].aired_date
                        /\ \A j \in 1..(i - 1) : episodes[j].aired_date > episodes[i].aired_date
         IN  <<episodes[first]>>
             \o sort_by_aired_date(SubSeq(episodes, 1, first - 1)
                                   \o SubSeq(episodes, first + 1, Len(episodes)))

\* fields_to_remove: the episode without its transcript path
cleaned_episode(episode) == [f \in (DOMAIN episode) \ {"transcript_path"} |-> episode[f]]

\* Mutant: a query that matches nothing gets nothing.
NoMatchResult_empty(metadata) == <<>>

\* filtered_metadata = self.metadata
NoMatchResult(metadata) == metadata

\* _prefilter_metadata(query) of a provider whose catalog is `metadata`,
\* `words` being query_words in the order the set is iterated. The result is
\* the list returned, the catalog the provider holds afterwards (the list
\* that is sorted in place is the catalog itself when nothing matched) and
\* the hosts mentioned.
prefilter_metadata(path, metadata, query, words) ==
    LET mentioned == mentioned_hosts(query, metadata)
        step1 == host_episodes(mentioned, metadata)
        step2 == step1 \o series_episodes(query, metadata, EpisodeIds(step1), 1)
        step3 == step2 \o matching_titles(words, metadata, EpisodeIds(step2), 1)
        none == /\ mentioned = {}
                /\ ~found_series(query)
                /\ ~found_title_match(query, metadata)
        filtered_metadata == sort_by_aired_date(IF none THEN NoMatchResult(metadata) ELSE step3)
    IN  [result |-> IF path = "MetadataPath"
                    THEN [i \in 1..Len(filtered_metadata) |-> cleaned_episode(filtered_metadata[i])]
                    ELSE filtered_metadata,
         metadata |-> IF none THEN filtered_metadata ELSE metadata,
         mentioned_hosts |-> mentioned]

\* MetadataPath._load_metadata keeps the file's list as it is;
\* HybridPath._load_metadata keeps the essential fields and sorts
load_metadata(path, raw_metadata) ==
    IF path = "MetadataPath" THEN raw_metadata
    ELSE sort_by_aired_date([i \in 1..Len(raw_metadata) |-> cleaned_episode(raw_metadata[i])])

\* The episodes catalogs are made of; two of them have the same id.
EpisodePool ==
    {[episode |-> 1, hosts |-> {"dwr.eth"}, series |-> "GM Farcaster",
      title |-> {"frames", "hub"}, aired_date |-> 3, transcript_path |-> "t1"],
     [episode |-> 2, hosts |-> {"afrochicks", "ccarella"}, series |-> "Vibe Check",
      title |-> {"the"}, aired_date |-> 1, transcript_path |-> "t2"],
     [episode |-> 3, hosts |-> {"naomi", "zed"}, series |-> "The Hub", title |-> {},
      aired_date |-> 2, transcript_path |-> "t3"],
     [episode |-> 1, hosts |-> {"zed"}, series |-> "The Hub", title |-> {},
      aired_date |-> 1, transcript_path |-> "t4"]}

\* The catalog files: lists of different episodes, in any order.
Catalogs ==
    UNION {{c \in [1..n -> EpisodePool] : \A i, j \in 1..n : (i # j) => (c[i] # c[j])} :
            n \in 0..MaxEpisodes}

\* The queries: lists of tokens.
CatalogQueries == UNION {[1..n -> QueryTokens] : n \in 0..MaxQueryTokens}

\* The orders in which a set of words can be iterated.
Orders(words) ==
    {o \in [1..Cardinality(words) -> words] : \A i, j \in 1..Cardinality(words) : (i # j) => (o[i] # o[j])}

\* =========================================================== orchestrator
Slots == {1, 2}
Endpoints == {"webhook_v2", "test_webhook"}
\* Payloads: no body, no type field, another event type, a well-formed
\* cast.created event, and cast.created events with `data` null, without
\* data.hash, or without data.text and data.author.
CastKinds == {"cast", "cast_no_hash", "cast_no_text_author"}
PayloadKinds == {"no_data", "no_type", "other_type", "cast_null_data"} \cup CastKinds
\* The payloads that are rejected in step 1 or well-formed.
WellFormedKinds == {"no_data", "no_type", "other_type", "cast"}
\* cast_data.get('hash') of a payload without data.hash
NoHash == 0
Routes == {"metadata", "contextual", "hybrid", "ignore", "other"}
\* What the orchestrator's if/elif chain may be handed: a route, or any other
\* value.
RouteValues == Routes \cup {"unrecognized"}
ProviderResults == {"reply", "apology", "none"}

\* The chains the orchestrator's thread fetch can meet: every short chain and
\* the longer chains in which user and bot alternate.
AlternatingChain(n) == [i \in 1..n |-> IF i % 2 = 1 THEN "user" ELSE "bot"]
HandlerChains == Chains \cup {AlternatingChain(n) : n \in (MaxChain + 1)..MaxLongChain}

\* What get_conversation_history_recursive can hand to the orchestrator.
ReconstructionOutcomes ==
    {[dry_run |-> d,
      depth |-> get_conversation_history_recursive(c[1], c[2], d).depth,
      failed |-> get_conversation_history_recursive(c[1], c[2], d).failed,
      turns |-> Len(get_conversation_history_recursive(c[1], c[2], d).messages)] :
        c \in UNION {{<<ch, f>> : f \in 0..Len(ch)} : ch \in HandlerChains},
        d \in BOOLEAN}

\* Mutant: the event type is not looked at.
IgnoredEventType_never(kind) == FALSE

\* if event_type != "cast.created"
IgnoredEventType(kind) == kind = "other_type"

\* Mutant: the `not` dropped.
IsDuplicate_inverted(cache, cast_hash, t, dry_run) == Contains(cache, cast_hash, t) /\ dry_run

\* Mutant: the gate rejects in simulation mode too.
IsDuplicate_alsoInSimulation(cache, cast_hash, t, dry_run) == Contains(cache, cast_hash, t)

\* if cast_hash in processed_casts and not dry_run
IsDuplicate(cache, cast_hash, t, dry_run) == Contains(cache, cast_hash, t) /\ ~dry_run

\* if author_fid == str(BOT_ACCOUNT_FID)
IsSelfMention(author_is_bot) == author_is_bot

\* Mutant: the dry-run return dropped.
SkipsPost_never(dry_run) == FALSE

\* post_reply_to_neynar: if dry_run: return
SkipsPost(dry_run) == dry_run

\* Mutant: >= for >.
DepthLimitReached_atLeast(depth) == depth >= DepthLimit

\* if depth > 8
DepthLimitReached(depth) == depth > DepthLimit

\* Mutant: the farewell comes one depth later.
conversation_state_late(depth) ==
    IF depth = 5 \/ depth = 6 \/ depth = 7 THEN "wrap_up_soon"
    ELSE IF depth >= 8 THEN "final_message"
    ELSE "none"

\* the conversation_state paragraph of the three providers' prompts
conversation_state(depth) ==
    IF depth = 5 \/ depth = 6 THEN "wrap_up_soon"
    ELSE IF depth >= 7 THEN "final_message"
    ELSE "none"

\* Mutant: the final else branch calls the Metadata Provider.
ProviderFor_elseMetadata(route_result) ==
    CASE route_result = "metadata" -> "MetadataPath"
      [] route_result = "contextual" -> "ContextualPath"
      [] route_result = "hybrid" -> "HybridPath"
      [] OTHER -> "MetadataPath"

\* the if/elif chain on route_result
ProviderFor(route_result) ==
    CASE route_result = "metadata" -> "MetadataPath"
      [] route_result = "contextual" -> "ContextualPath"
      [] route_result = "hybrid" -> "HybridPath"
      [] OTHER -> "ContextualPath"

\* What requests.post can do: answer 200, answer an error status
\* (raise_for_status raises), or time out.
PostOutcomes == {"ok", "http_error", "timeout"}

\* Mutant: the failure is logged and not re-raised.
PostResponse_swallowed(outcome) == "processed"

\* post_reply_to_neynar re-raises requests.Timeout and RequestException, and
\* the handler's inner except answers "Unknown error"
PostResponse(outcome) == IF outcome = "ok" THEN "processed" ELSE "unknown_error"

\* the JSON body of each response: its one field and that field's text
ResponseBody(resp) ==
    CASE resp = "no_data" -> [field |-> "error", text |-> "No data provided"]
      [] resp = "missing_type" -> [field |-> "error", text |-> "Missing event type"]
      [] resp = "ignored_event" ->
            [field |-> "status", text |-> "Event type was not cast.created; ignoring request"]
      [] resp = "duplicate" -> [field |-> "status", text |-> "ignored duplicate"]
      [] resp = "self_mention" ->
            [field |-> "status", text |-> "Bot tagged itself; ignoring and not replying..."]
      [] resp = "depth_limit" -> [field |-> "status", text |-> "conversation depth limit reached"]
      [] resp = "ignore_query" -> [field |-> "status", text |-> "ignore query detected"]
      [] resp = "unknown_error" -> [field |-> "error", text |-> "Unknown error"]
      [] resp = "internal_error" -> [field |-> "error", text |-> "Internal server error"]
      [] resp = "processed" -> [field |-> "message", text |-> "Webhook processed"]

\* the HTTP code returned with each response body
ResponseCode(resp) ==
    CASE resp \in {"no_data", "missing_type"} -> 400
      [] resp \in {"unknown_error", "internal_error"} -> 500
      [] OTHER -> 200

IdleRequest ==
    [pc |-> "idle", kind |-> None, cast_hash |-> 0, is_bot |-> FALSE,
     dry_run |-> FALSE, use_llm |-> FALSE, gate |-> None, marked |-> FALSE,
     depth |-> -1, fetch_failed |-> FALSE, turns |-> 0, route_result |-> None,
     llm_response |-> None, calls |-> {}, posts |-> 0, post_outcome |-> None,
     resp |-> None]

\* The message the history variables follow; the other keys are the "other
\* message ids" (the handler treats every key alike).
m == CHOOSE k \in Keys : \A j \in Keys : k <= j

NoEpoch == [start |-> -1, posts |-> 0, others |-> {}, clean |-> TRUE]

VARIABLES
    \* the reconstruction run on its own: its input and its result
    thread_chain, thread_failAt, thread_dry_run, thread_result,
    \* the process: its clock, configuration and dedup cache
    now, USE_LLM, DRY_RUN_SIMULATION, processed_casts,
    \* the webhook invocations in flight
    req,
    \* history: deliveries so far and the ids they carried; the time m was
    \* last marked, whether in simulation mode, and the other ids marked
    \* since; the deliveries of m that follow a first delivery of m within the
    \* TTL (an epoch)
    deliveries, seen, lastMarked, lastMarkedDry, since, epoch,
    \* history: how the last delivery of m that passed the gate ended
    lastOutcome,
    \* route_query run on its own: its query, the completion call's behaviour
    \* and the result
    router_query, router_llm, router_result,
    \* post_reply_to_neynar's truncation run on its own: the payload's text
    \* before and after
    payload_text, payload_sent,
    \* a provider's handle_query run on its own: the provider, its inputs and
    \* the result
    provider, provider_in, provider_out,
    \* a provider's _prefilter_metadata run on its own: the provider, the
    \* catalog file it loaded, the catalog it holds, and the call in progress
    \* (its query, the catalog it was made on and what it returns)
    catalog_path, raw_metadata, metadata, prefilter_call,
    \* one thread between the original author and the bot: its casts, newest
    \* first, and whether the newest is waiting for the handler; history: the
    \* depths the handler saw, the last reply (the depth and route it was
    \* composed for and the instruction its prompt carried), and whether the
    \* handler has declined to reply
    conversation, conv_pending, conv_depths, conv_reply, conv_stopped

thread_vars == <<thread_chain, thread_failAt, thread_dry_run, thread_result>>
handler_vars == <<now, USE_LLM, DRY_RUN_SIMULATION, processed_casts, req,
                  deliveries, seen, lastMarked, lastMarkedDry, since, epoch, lastOutcome>>
router_vars == <<router_query, router_llm, router_result>>
payload_vars == <<payload_text, payload_sent>>
provider_vars == <<provider, provider_in, provider_out>>
catalog_vars == <<catalog_path, raw_metadata, metadata, prefilter_call>>
conversation_vars == <<conversation, conv_pending, conv_depths, conv_reply, conv_stopped>>
unit_vars == <<router_vars, payload_vars, provider_vars, catalog_vars, conversation_vars>>
vars == <<thread_vars, handler_vars, unit_vars>>

\* ---------------------------------------------------------------- threads
ThreadIdle ==
    /\ thread_chain = <<"user">>
    /\ thread_failAt = 0
    /\ thread_dry_run = FALSE
    /\ thread_result = <<>>

Reconstruct ==
    /\ thread_result = <<>>
    /\ thread_result' = <<get_conversation_history_recursive(thread_chain, thread_failAt, thread_dry_run)>>
    /\ UNCHANGED <<thread_chain, thread_failAt, thread_dry_run, handler_vars, unit_vars>>

\* ----------------------------------------------------------------- router
RouterIdle ==
    /\ router_query = [kind |-> "null", content |-> <<>>]
    /\ router_llm = [kind |-> "raises", content |-> <<>>]
    /\ router_result = <<>>

RouteQuery ==
    /\ router_result = <<>>
    /\ router_result' = <<route_query(router_query, router_llm)>>
    /\ UNCHANGED <<router_query, router_llm, payload_vars, provider_vars, catalog_vars,
                   conversation_vars, thread_vars, handler_vars>>

\* ------------------------------------------------------------- truncation
PayloadIdle == payload_text = <<>> /\ payload_sent = <<>>

\* post_reply_to_neynar: payload['text'] = truncate_to_byte_limit(payload['text'])
TruncatePayload ==
    /\ payload_sent = <<>>
    /\ payload_sent' = <<truncate_to_byte_limit(payload_text, Limit)>>
    /\ UNCHANGED <<payload_text, router_vars, provider_vars, catalog_vars, conversation_vars,
                   thread_vars, handler_vars>>

\* -------------------------------------------------------------- providers
ProviderIdle ==
    /\ provider = "ContextualPath"
    /\ provider_in = [user_name |-> "Unknown", failing |-> {}, content |-> "text"]
    /\ provider_out = <<>>

HandleQuery ==
    /\ provider_out = <<>>
    /\ provider_out' = <<handle_query(provider, provider_in.user_name, provider_in.failing,
                                       provider_in.content)>>
    /\ UNCHANGED <<provider, provider_in, router_vars, payload_vars, catalog_vars,
                   conversation_vars, thread_vars, handler_vars>>

\* ---------------------------------------------------------------- catalog
CatalogIdle ==
    /\ catalog_path = "MetadataPath"
    /\ raw_metadata = <<>>
    /\ metadata = <<>>
    /\ prefilter_call = <<>>

\* A call of _prefilter_metadata: it returns the candidates and leaves the
\* provider with the catalog the call left.
PrefilterMetadata ==
    /\ prefilter_call = <<>>
    /\ \E query \in CatalogQueries : \E words \in Orders(query_words(query)) :
         LET out == prefilter_metadata(catalog_path, metadata, query, words)
         IN  /\ prefilter_call' = <<[query |-> query, self_metadata |-> metadata,
                                    result |-> out.result,
                                    mentioned_hosts |-> out.mentioned_hosts]>>
             /\ metadata' = out.metadata
    /\ UNCHANGED <<catalog_path, raw_metadata, router_vars, payload_vars, provider_vars,
                   conversation_vars, thread_vars, handler_vars>>

\* handle_query goes on with the candidates; the provider is ready for the
\* next query.
PrefilterReturn ==
    /\ prefilter_call # <<>>
    /\ prefilter_call' = <<>>
    /\ UNCHANGED <<catalog_path, raw_metadata, metadata, router_vars, payload_vars,
                   provider_vars, conversation_vars, thread_vars, handler_vars>>

\* ----------------------------------------------------------- conversation
ConversationIdle ==
    /\ conversation = <<>>
    /\ conv_pending = FALSE
    /\ conv_depths = <<>>
    /\ conv_reply = <<>>
    /\ conv_stopped = FALSE

\* The threads of the author and the bot alternating, from the author's
\* newest cast back to the root, and what get_conversation_history_recursive
\* returns for each when no fetch fails (computed once for each thread).
AlternatingThreads == {AlternatingChain(n) : n \in 1..MaxConversation}
conversation_history ==
    [chain \in AlternatingThreads |-> get_conversation_history_recursive(chain, 0, FALSE)]

\* The original author posts: the first cast of the thread, or a reply to
\* the bot's latest reply.
UserReplies ==
    /\ ~conv_pending /\ ~conv_stopped
    /\ Len(conversation) < MaxConversation
    /\ IF conversation = <<>> THEN TRUE ELSE conversation[1] = "bot"
    /\ conversation' = <<"user">> \o conversation
    /\ conv_pending' = TRUE
    /\ UNCHANGED <<conv_depths, conv_reply, conv_stopped, router_vars, payload_vars,
                   provider_vars, catalog_vars, thread_vars, handler_vars>>

\* handle_webhook_v2 on the author's newest cast, LLM usage on, no fetch
\* failing: the depth gate, then the route, the provider's reply composed
\* from the prompt for that depth, and the bot's cast under the author's.
HandleMessage ==
    /\ conv_pending
    /\ conv_pending' = FALSE
    /\ LET depth == conversation_history[conversation].depth
       IN  /\ conv_depths' = Append(conv_depths, depth)
           /\ IF DepthLimitReached(depth)
              THEN /\ conv_stopped' = TRUE
                   /\ UNCHANGED <<conversation, conv_reply>>
              ELSE \E route_result \in RouteValues \ {"ignore"} :
                      /\ conv_reply' = <<[depth |-> depth,
                                          provider |-> ProviderFor(route_result),
                                          route_result |-> route_result,
                                          conversation_state |-> conversation_state(depth)]>>
                      /\ conversation' = <<"bot">> \o conversation
                      /\ UNCHANGED conv_stopped
    /\ UNCHANGED <<router_vars, payload_vars, provider_vars, catalog_vars, thread_vars,
                   handler_vars>>

UnitIdle == RouterIdle /\ PayloadIdle /\ ProviderIdle /\ CatalogIdle /\ ConversationIdle

\* ----------------------------------------------------------- orchestrator
HandlerInit ==
    /\ now = 0
    /\ USE_LLM \in BOOLEAN
    /\ DRY_RUN_SIMULATION \in BOOLEAN
    /\ processed_casts = <<>>
    /\ req = [r \in Slots |-> IdleRequest]
    /\ deliveries = 0
    /\ seen = {}
    /\ lastMarked = -1
    /\ lastMarkedDry = FALSE
    /\ since = {}
    /\ epoch = NoEpoch
    /\ lastOutcome = None

\* How the delivery of m that passed the gate ended, once invocation r (now
\* `after`) has its response.
Outcome(r, after) ==
    IF after.cast_hash = m /\ after.pc = "done" THEN after.resp ELSE lastOutcome

\* A delivery of k at time t opens a new epoch unless it falls within the TTL
\* of the delivery that opened the current one.
EpochOnDelivery(e, t, dry_run) ==
    IF e.start = -1 \/ t - e.start >= TTL
    THEN [start |-> t, posts |-> 0, others |-> {}, clean |-> ~dry_run]
    ELSE [e EXCEPT !.clean = @ /\ ~dry_run]

\* The ids the next delivery may carry: m, an id delivered before, or the
\* first id not delivered yet (ids are named in order of first appearance).
NextHashes(delivered) ==
    {k \in Keys : k = m \/ k \in delivered \/ \A j \in Keys \ (delivered \cup {m}) : k <= j}

\* handle_webhook_v2, steps 1 and 2: validation and the Dedup Gate's check
Receive(r, endpoint, kind, k, bot) ==
    /\ req[r].pc = "idle"
    /\ deliveries < MaxDeliveries
    /\ endpoint = "test_webhook" => kind = "cast"
    /\ k \in NextHashes(seen)
    /\ deliveries' = deliveries + 1
    /\ seen' = IF kind \in CastKinds \ {"cast_no_hash"} THEN seen \cup {k} ELSE seen
    /\ LET dry_run == IF endpoint = "test_webhook" THEN TRUE ELSE DRY_RUN_SIMULATION
           use_llm == IF endpoint = "test_webhook" THEN TRUE ELSE USE_LLM
           fresh == [IdleRequest EXCEPT !.kind = kind, !.dry_run = dry_run, !.use_llm = use_llm]
       IN  IF kind = "no_data"
           THEN /\ req' = [req EXCEPT ![r] = [fresh EXCEPT !.pc = "done", !.resp = "no_data"]]
                /\ UNCHANGED epoch
           ELSE IF kind = "no_type"
           THEN /\ req' = [req EXCEPT ![r] = [fresh EXCEPT !.pc = "done", !.resp = "missing_type"]]
                /\ UNCHANGED epoch
           ELSE IF IgnoredEventType(kind)
           THEN /\ req' = [req EXCEPT ![r] = [fresh EXCEPT !.pc = "done", !.resp = "ignored_event"]]
                /\ UNCHANGED epoch
           ELSE IF kind = "cast_null_data"
           THEN \* data.get('data', {}) is None and None.get raises: the outer except
                /\ req' = [req EXCEPT ![r] = [fresh EXCEPT !.pc = "done", !.resp = "internal_error"]]
                /\ UNCHANGED epoch
           ELSE LET cast_hash == IF kind = "cast_no_hash" THEN NoHash ELSE k
                    \* a missing author.fid defaults to '0', never the bot's
                    is_bot == IF kind = "cast_no_text_author" THEN FALSE ELSE bot
                IN  /\ epoch' = IF cast_hash = m THEN EpochOnDelivery(epoch, now, dry_run) ELSE epoch
                    /\ IF IsDuplicate(processed_casts, cast_hash, now, dry_run)
                       THEN req' = [req EXCEPT ![r] =
                                        [fresh EXCEPT !.pc = "done", !.cast_hash = cast_hash,
                                            !.is_bot = is_bot, !.gate = "duplicate", !.resp = "duplicate"]]
                       ELSE req' = [req EXCEPT ![r] =
                                        [fresh EXCEPT !.pc = "mark", !.cast_hash = cast_hash,
                                            !.is_bot = is_bot, !.gate = "passed"]]
    /\ UNCHANGED <<now, USE_LLM, DRY_RUN_SIMULATION, processed_casts, lastMarked, lastMarkedDry, since,
                   lastOutcome, thread_vars, unit_vars>>

\* steps 2 and 3: mark the cast processed, then the self-mention guard
Mark(r) ==
    /\ req[r].pc = "mark"
    /\ LET k == req[r].cast_hash
       IN  /\ processed_casts' = SetItem(processed_casts, k, now)
           /\ lastMarked' = IF k = m THEN now ELSE lastMarked
           /\ lastMarkedDry' = IF k = m THEN req[r].dry_run ELSE lastMarkedDry
           /\ since' = IF k = m THEN {} ELSE IF lastMarked = -1 THEN since ELSE since \cup {k}
           /\ epoch' = IF k = m \/ epoch.start = -1 THEN epoch
                        ELSE [epoch EXCEPT !.others = @ \cup {k}]
    /\ req' = [req EXCEPT ![r] =
                IF IsSelfMention(req[r].is_bot)
                THEN [@ EXCEPT !.marked = TRUE, !.pc = "done", !.resp = "self_mention"]
                ELSE IF req[r].use_llm
                THEN [@ EXCEPT !.marked = TRUE, !.pc = "context"]
                ELSE [@ EXCEPT !.marked = TRUE, !.pc = "post", !.llm_response = "resting"]]
    /\ lastOutcome' = IF req[r].cast_hash # m THEN lastOutcome
                       ELSE IF IsSelfMention(req[r].is_bot) THEN "self_mention" ELSE None
    /\ UNCHANGED <<now, USE_LLM, DRY_RUN_SIMULATION, deliveries, seen, thread_vars, unit_vars>>

\* step 4: the summary and the thread fetch, then the depth gate
Context(r, outcomes) ==
    /\ req[r].pc = "context"
    /\ \E o \in outcomes :
        /\ o.dry_run = req[r].dry_run
        /\ req' = [req EXCEPT ![r] =
                    IF DepthLimitReached(o.depth)
                    THEN [@ EXCEPT !.calls = @ \cup {"summary", "fetch"}, !.depth = o.depth,
                                   !.fetch_failed = o.failed, !.turns = o.turns,
                                   !.pc = "done", !.resp = "depth_limit"]
                    ELSE [@ EXCEPT !.calls = @ \cup {"summary", "fetch"}, !.depth = o.depth,
                                   !.fetch_failed = o.failed, !.turns = o.turns, !.pc = "route"]]
    /\ lastOutcome' = Outcome(r, req'[r])
    /\ UNCHANGED <<now, USE_LLM, DRY_RUN_SIMULATION, processed_casts, deliveries, seen,
                   lastMarked, lastMarkedDry, since, epoch, thread_vars, unit_vars>>

\* step 5: WorkflowRouter.route_query
Route(r, routes) ==
    /\ req[r].pc = "route"
    /\ \E route_result \in routes :
        req' = [req EXCEPT ![r] =
                    IF route_result = "ignore"
                    THEN [@ EXCEPT !.calls = @ \cup {"router"}, !.route_result = route_result,
                                   !.pc = "done", !.resp = "ignore_query"]
                    ELSE [@ EXCEPT !.calls = @ \cup {"router"}, !.route_result = route_result,
                                   !.pc = "provider"]]
    /\ lastOutcome' = Outcome(r, req'[r])
    /\ UNCHANGED <<now, USE_LLM, DRY_RUN_SIMULATION, processed_casts, deliveries, seen,
                   lastMarked, lastMarkedDry, since, epoch, thread_vars, unit_vars>>

\* the selected provider's handle_query
Provider(r, results) ==
    /\ req[r].pc = "provider"
    /\ \E llm_response \in results :
        req' = [req EXCEPT ![r] =
                    [@ EXCEPT !.calls = @ \cup {ProviderFor(req[r].route_result)},
                              !.llm_response = llm_response, !.pc = "post"]]
    /\ UNCHANGED <<now, USE_LLM, DRY_RUN_SIMULATION, processed_casts, deliveries, seen,
                   lastMarked, lastMarkedDry, since, epoch, lastOutcome, thread_vars, unit_vars>>

\* post_reply_to_neynar and the handler's last lines. A None text raises in
\* truncate_to_byte_limit before anything is sent; a dry run returns before
\* requests.post; otherwise the request is sent and may fail.
Post(r) ==
    /\ req[r].pc = "post"
    /\ IF req[r].llm_response = "none"
       THEN /\ req' = [req EXCEPT ![r] = [@ EXCEPT !.pc = "done", !.resp = "unknown_error"]]
            /\ UNCHANGED epoch
       ELSE IF SkipsPost(req[r].dry_run)
       THEN /\ req' = [req EXCEPT ![r] = [@ EXCEPT !.pc = "done", !.resp = "processed"]]
            /\ UNCHANGED epoch
       ELSE /\ \E outcome \in PostOutcomes :
                req' = [req EXCEPT ![r] =
                            [@ EXCEPT !.calls = @ \cup {"post"}, !.posts = @ + 1, !.pc = "done",
                                      !.post_outcome = outcome, !.resp = PostResponse(outcome)]]
            /\ epoch' = IF req[r].cast_hash = m THEN [epoch EXCEPT !.posts = @ + 1] ELSE epoch
    /\ lastOutcome' = Outcome(r, req'[r])
    /\ UNCHANGED <<now, USE_LLM, DRY_RUN_SIMULATION, processed_casts, deliveries, seen,
                   lastMarked, lastMarkedDry, since, thread_vars, unit_vars>>

\* the handler returns its response; the worker is free for the next request
Return(r) ==
    /\ req[r].pc = "done"
    /\ req' = [req EXCEPT ![r] = IdleRequest]
    /\ UNCHANGED <<now, USE_LLM, DRY_RUN_SIMULATION, processed_casts, deliveries, seen,
                   lastMarked, lastMarkedDry, since, epoch, lastOutcome, thread_vars, unit_vars>>

Tick ==
    /\ now < MaxTicks * TickSeconds
    /\ now' = now + TickSeconds
    /\ UNCHANGED <<USE_LLM, DRY_RUN_SIMULATION, processed_casts, req, deliveries, seen,
                   lastMarked, lastMarkedDry, since, epoch, lastOutcome, thread_vars, unit_vars>>

\* One step of invocation r, its inputs drawn from the sets of `in`.
Step(r, in) ==
    \/ \E endpoint \in Endpoints, kind \in in.kinds, k \in in.keys, bot \in BOOLEAN :
            Receive(r, endpoint, kind, k, bot)
    \/ Mark(r)
    \/ Context(r, in.outcomes)
    \/ Route(r, in.routes)
    \/ Provider(r, in.results)
    \/ Post(r)
    \/ Return(r)

\* ---------------------------------------------------------- specifications
Init == ThreadIdle /\ HandlerInit /\ UnitIdle

\* The Dedup Gate, one request at a time (the processing model of the
\* design): every message id and every outcome of a request, one
\* representative input for each outcome.
DedupInputs ==
    [kinds |-> {"other_type", "cast"}, keys |-> Keys,
     outcomes |-> {o \in ReconstructionOutcomes : o.depth \in {0, FailDepthLive, FailDepthDryRun}},
     routes |-> {"ignore", "other"}, results |-> {"reply", "none"}]
Next == Step(1, DedupInputs) \/ Tick
Spec == Init /\ [][Next]_vars

\* The pipeline behind the gate, one request at a time: deliveries of m with
\* every payload kind, reconstruction outcome, route and provider result.
PipelineInputs ==
    [kinds |-> WellFormedKinds, keys |-> {m}, outcomes |-> ReconstructionOutcomes,
     routes |-> RouteValues, results |-> ProviderResults]
NextPipeline == Step(1, PipelineInputs) \/ Tick
SpecPipeline == Init /\ [][NextPipeline]_vars

\* Step 1 on every payload, the malformed cast.created events included, one
\* request at a time.
ValidationInputs == [DedupInputs EXCEPT !.kinds = PayloadKinds, !.keys = {m}]
NextValidation == Step(1, ValidationInputs) \/ Tick
SpecValidation == Init /\ [][NextValidation]_vars

\* Two invocations in flight (a threaded server).
ConcurrentInputs == [DedupInputs EXCEPT !.keys = {m}]
NextConcurrent == (\E r \in Slots : Step(r, ConcurrentInputs)) \/ Tick
SpecConcurrent == Init /\ [][NextConcurrent]_vars

\* The Thread Reconstructor on every chain.
ThreadSpecInit ==
    /\ thread_chain \in Chains
    /\ thread_failAt \in 0..Len(thread_chain)
    /\ thread_dry_run \in BOOLEAN
    /\ thread_result = <<>>
    /\ HandlerInit
    /\ USE_LLM /\ ~DRY_RUN_SIMULATION
    /\ UnitIdle
SpecThread == ThreadSpecInit /\ [][Reconstruct]_vars

\* route_query on every query and completion.
RouterSpecInit ==
    /\ router_query \in Queries
    /\ router_llm \in Completions
    /\ router_result = <<>>
    /\ PayloadIdle /\ ProviderIdle /\ CatalogIdle /\ ConversationIdle
    /\ ThreadIdle /\ HandlerInit
    /\ USE_LLM /\ ~DRY_RUN_SIMULATION
SpecRouter == RouterSpecInit /\ [][RouteQuery]_vars

\* truncate_to_byte_limit on every text.
TruncateSpecInit ==
    /\ payload_text \in Texts
    /\ payload_sent = <<>>
    /\ RouterIdle /\ ProviderIdle /\ CatalogIdle /\ ConversationIdle
    /\ ThreadIdle /\ HandlerInit
    /\ USE_LLM /\ ~DRY_RUN_SIMULATION
SpecTruncate == TruncateSpecInit /\ [][TruncatePayload]_vars

\* Each provider's handle_query with every set of failing steps.
ProviderSpecInit ==
    /\ provider \in ProviderNames
    /\ provider_in \in [user_name : UserNames, failing : SUBSET StepsOf(provider),
                         content : CompletionContents]
    /\ provider_out = <<>>
    /\ RouterIdle /\ PayloadIdle /\ CatalogIdle /\ ConversationIdle
    /\ ThreadIdle /\ HandlerInit
    /\ USE_LLM /\ ~DRY_RUN_SIMULATION
SpecProviders == ProviderSpecInit /\ [][HandleQuery]_vars

\* A provider of either kind, constructed on a catalog file, answering
\* query after query.
CatalogSpecInit ==
    /\ catalog_path \in {"MetadataPath", "HybridPath"}
    /\ raw_metadata \in Catalogs
    /\ metadata = load_metadata(catalog_path, raw_metadata)
    /\ prefilter_call = <<>>
    /\ RouterIdle /\ PayloadIdle /\ ProviderIdle /\ ConversationIdle
    /\ ThreadIdle /\ HandlerInit
    /\ USE_LLM /\ ~DRY_RUN_SIMULATION
NextCatalog == PrefilterMetadata \/ PrefilterReturn
SpecCatalog == CatalogSpecInit /\ [][NextCatalog]_vars

\* A thread in which the original author and the bot alternate, started by
\* either, every cast of the author handled before the next. The author
\* goes on replying and the handler answers each webhook.
ConversationSpecInit ==
    /\ conversation \in {<<>>, <<"bot">>}
    /\ conv_pending = FALSE
    /\ conv_depths = <<>>
    /\ conv_reply = <<>>
    /\ conv_stopped = FALSE
    /\ RouterIdle /\ PayloadIdle /\ ProviderIdle /\ CatalogIdle
    /\ ThreadIdle /\ HandlerInit
    /\ USE_LLM /\ ~DRY_RUN_SIMULATION
NextConversation == UserReplies \/ HandleMessage
SpecConversation ==
    ConversationSpecInit /\ [][NextConversation]_vars /\ WF_vars(UserReplies) /\ WF_vars(HandleMessage)

\* ================================================================ claims
\* The one invocation of the one-at-a-time specifications.
R == req[1]

\* A step that receives a cast.created delivery of k.
DeliveryOf(k) ==
    /\ deliveries' = deliveries + 1
    /\ req'[1].kind = "cast"
    /\ req'[1].cast_hash = k

\* A step in which the invocation marks k processed.
MarkOf(k) == req[1].pc = "mark" /\ req[1].cast_hash = k /\ req'[1].marked

\* The response "ignored duplicate", 200, with nothing else done.
RejectedAsDuplicate(rq) ==
    /\ rq.pc = "done" /\ rq.gate = "duplicate" /\ rq.resp = "duplicate"
    /\ ResponseCode(rq.resp) = 200
    /\ rq.calls = {} /\ rq.posts = 0 /\ ~rq.marked

WithinTTL == lastMarked >= 0 /\ now - lastMarked < TTL
NotEvicted == Cardinality(since) < MaxSize

\* C1 as stated: with simulation off, the first delivery of m passes the
\* Dedup Gate and every later delivery of m within the TTL of m's mark is
\* answered 200 "ignored duplicate" with no fetch, router, provider or post.
C1_RedeliveryWithinTTLIsDuplicate ==
    [][(DeliveryOf(m) /\ ~req'[1].dry_run) =>
            /\ epoch.start = -1 => req'[1].gate = "passed"
            /\ WithinTTL => RejectedAsDuplicate(req'[1])]_vars

\* C1 amended: the same, for a redelivery before the capacity bound has
\* evicted m (fewer than maxsize other ids marked since m was marked).
C1_RedeliveryIsDuplicateUnlessEvicted ==
    [][(DeliveryOf(m) /\ ~req'[1].dry_run) =>
            /\ epoch.start = -1 => req'[1].gate = "passed"
            /\ (WithinTTL /\ NotEvicted) => RejectedAsDuplicate(req'[1])]_vars

\* C1 witness: a redelivery of m, within the TTL and with another id marked
\* in between, was rejected as a duplicate.
C1_Witness ==
    /\ RejectedAsDuplicate(R) /\ R.cast_hash = m /\ ~R.dry_run
    /\ WithinTTL /\ since # {}

\* C2: a post-creation request is issued only for a cast.created event that
\* passed the gate, whose author is not the bot, with simulation off, and
\* with LLM usage disabled or (depth <= 8 and the route not "ignore"); and at
\* most once per invocation.
C2_PostOnlyWhenAllGatesPass ==
    /\ R.posts <= 1
    /\ ("post" \in R.calls) = (R.posts = 1)
    /\ R.posts = 1 =>
        /\ R.kind = "cast" /\ R.gate = "passed" /\ ~R.is_bot /\ ~R.dry_run
        /\ \/ ~R.use_llm
           \/ R.depth \in 0..DepthLimit /\ R.route_result \in RouteValues \ {"ignore"}

\* C2 witness: a reply was posted for a thread of depth exactly 8.
C2_Witness == R.posts = 1 /\ R.use_llm /\ R.depth = DepthLimit /\ R.resp = "processed"

Outcomes == {"self_mention", "depth_limit", "ignore_query", "unknown_error", "processed"}

\* m is in the cache with the expiry its last mark, at time `at`, gave it.
Marked(cache, at) == \E i \in 1..Len(cache) : cache[i] = [key |-> m, expires |-> at + TTL]

\* Every external call of an invocation comes after its mark, and the mark
\* outlives the invocation whatever its outcome.
MarkedThroughout(rq, cache, at) ==
    /\ rq.calls # {} => rq.marked
    /\ (rq.marked /\ rq.cast_hash = m) => Marked(cache, at)
    /\ (rq.marked /\ rq.pc = "done") => rq.resp \in Outcomes

\* C3 as stated: m is marked before any external call and stays marked
\* whatever the outcome, and a redelivery within the TTL with simulation off
\* is rejected as a duplicate whatever the first attempt's outcome was.
C3_MarkedWhateverTheOutcome ==
    [][/\ MarkedThroughout(req'[1], processed_casts', lastMarked')
       /\ (DeliveryOf(m) /\ ~req'[1].dry_run /\ WithinTTL /\ lastOutcome \in Outcomes)
            => RejectedAsDuplicate(req'[1])]_vars

\* C3 amended: the same, the redelivery arriving before the capacity bound
\* has evicted m.
C3_MarkedWhateverTheOutcomeUnlessEvicted ==
    [][/\ MarkedThroughout(req'[1], processed_casts', lastMarked')
       /\ (DeliveryOf(m) /\ ~req'[1].dry_run /\ WithinTTL /\ NotEvicted /\ lastOutcome \in Outcomes)
            => RejectedAsDuplicate(req'[1])]_vars

\* C3 witness: the first attempt ended in a 500 and posted nothing, and the
\* redelivery was rejected.
C3_Witness ==
    /\ RejectedAsDuplicate(R) /\ R.cast_hash = m /\ ~R.dry_run
    /\ lastOutcome = "unknown_error" /\ epoch.posts = 0 /\ WithinTTL

\* C4: a delivery of m arriving more than the TTL after m was last marked is
\* not a duplicate; it goes on to be marked, as new, with a full TTL.
C4_ExpiredEntryIsAbsent ==
    [][/\ (DeliveryOf(m) /\ lastMarked >= 0 /\ now - lastMarked > TTL)
            => (req'[1].gate = "passed" /\ req'[1].pc = "mark")
       /\ MarkOf(m)
            => /\ Contains(processed_casts', m, now)
               /\ \A t \in now..(now + TTL - 1) : Contains(processed_casts', m, t)
               /\ ~Contains(processed_casts', m, now + TTL + 1)]_vars

\* C4 witness: with simulation off and no other id marked since, a delivery
\* of m passed the gate more than the TTL after m's last mark.
C4_Witness ==
    /\ R.pc = "mark" /\ R.cast_hash = m /\ ~R.dry_run /\ R.gate = "passed"
    /\ lastMarked >= 0 /\ now - lastMarked > TTL /\ since = {}

\* C5 as stated: of two deliveries of m handled concurrently with simulation
\* off, at most one passes the Dedup Gate, and at most one reply is posted
\* for m within the TTL of its first delivery.
C5_ConcurrentDeliveriesSynchronized ==
    /\ ~(\E r1, r2 \in Slots :
            /\ r1 # r2
            /\ req[r1].pc = "mark" /\ req[r2].pc = "mark"
            /\ req[r1].cast_hash = req[r2].cast_hash
            /\ ~req[r1].dry_run /\ ~req[r2].dry_run)
    /\ epoch.clean => epoch.posts <= 1

\* C6: one at a time, simulation off, fewer than maxsize other ids marked in
\* between: the deliveries of m within the TTL of its first delivery cause at
\* most one post-creation request.
C6_AtMostOnePostPerEpoch ==
    (epoch.clean /\ Cardinality(epoch.others) < MaxSize) => epoch.posts <= 1

\* C6 witness: the reply was posted, and a retry of the same delivery within
\* the TTL was absorbed.
C6_Witness ==
    /\ epoch.clean /\ epoch.posts = 1 /\ lastOutcome = "processed"
    /\ RejectedAsDuplicate(R) /\ R.cast_hash = m /\ now - epoch.start < TTL

\* The speaker changes along a chain, the first cast counting as one.
SpeakerChanges(chain) ==
    Cardinality({i \in 1..Len(chain) : i = 1 \/ chain[i] # chain[i - 1]})

\* C7 as stated: the depth counts speaker alternations (consecutive casts by
\* the same participant add nothing), and an alternating user/bot chain of 4
\* casts yields depth 2.
C7_DepthCountsAlternations ==
    \A res \in {thread_result[i] : i \in 1..Len(thread_result)} :
        ~res.failed =>
            /\ res.depth <= SpeakerChanges(thread_chain)
            /\ thread_chain = AlternatingChain(4) => res.depth = 2

\* C8: with LLM usage on, a depth above 8 ends the request with 200
\* "conversation depth limit reached" and no router, provider or post call;
\* a depth of at most 8 is not stopped by this gate.
C8_DepthGate ==
    (R.use_llm /\ R.depth >= 0) =>
        /\ R.depth > DepthLimit =>
            /\ R.pc = "done" /\ R.resp = "depth_limit" /\ ResponseCode(R.resp) = 200
            /\ R.calls = {"summary", "fetch"} /\ R.posts = 0
            /\ R.route_result = None /\ R.llm_response = None
        /\ R.depth <= DepthLimit => (R.resp # "depth_limit" /\ R.pc # "context")

\* C8 witness: a thread of depth 9 was stopped by the gate.
C8_Witness == R.use_llm /\ R.depth = DepthLimit + 1 /\ ~R.fetch_failed /\ R.resp = "depth_limit"

\* C9: a failed fetch gives no turns and depth 999 with simulation off, so
\* the depth gate stops the request and nothing is posted; with simulation on
\* it gives no turns and depth 1, and the gate does not stop the request.
C9_FetchFailureSentinel ==
    R.fetch_failed =>
        /\ R.turns = 0
        /\ ~R.dry_run => /\ R.depth = FailDepthLive
                         /\ R.pc = "done" /\ R.resp = "depth_limit" /\ R.posts = 0
                         /\ "post" \notin R.calls
        /\ R.dry_run => /\ R.depth = FailDepthDryRun
                        /\ R.resp # "depth_limit"

\* C9 witness: a fetch failed with simulation off and the request was stopped.
C9_Witness == R.fetch_failed /\ ~R.dry_run /\ R.resp = "depth_limit" /\ R.depth = FailDepthLive

\* The first third-party cast of a chain (0: none).
FirstOther(chain) ==
    IF \E i \in 1..Len(chain) : chain[i] = "other"
    THEN CHOOSE i \in 1..Len(chain) : chain[i] = "other" /\ \A j \in 1..(i - 1) : chain[j] # "other"
    ELSE 0

Contents(messages) == {messages[i].content : i \in 1..Len(messages)}

ExampleChain == <<"user", "other", "user", "bot", "user">>

WithoutTrigger(messages) == SelectSeq(messages, LAMBDA t : t.content # 1)

\* C11 as stated: the returned turn list is the list of appended turns with
\* the triggering message's own turn removed; it never contains the
\* triggering message and never loses the turn of an earlier message.
C11_DroppedTurnIsTrigger ==
    \A res \in {thread_result[i] : i \in 1..Len(thread_result)} :
        ~res.failed =>
            /\ res.messages = WithoutTrigger(res.appended)
            /\ 1 \notin Contents(res.messages)

\* The text is `label` in some letter case with only whitespace around it.
IsLabelInAnyCase(text, label) ==
    \E i \in 1..(Len(text) + 1) :
        /\ i + Len(label) - 1 <= Len(text)
        /\ \A k \in 1..Len(text) :
            IF k < i \/ k > i + Len(label) - 1
            THEN text[k] \in Whitespace
            ELSE text[k] \in {label[k - i + 1], UpperChar(label[k - i + 1])}

LabelNames ==
    {<<LabelMetadata, "metadata">>, <<LabelContextual, "contextual">>,
     <<LabelHybrid, "hybrid">>, <<LabelIgnore, "ignore">>}

ProviderOfRoute ==
    [v \in RouteValues \ {"ignore"} |->
        IF v = "metadata" THEN "MetadataPath"
        ELSE IF v = "hybrid" THEN "HybridPath"
        ELSE "ContextualPath"]

\* C13: once routed, a request invokes exactly one provider, once, the one
\* its route determines (other and unrecognized values: the Contextual
\* Provider); for the route "ignore" no provider is invoked, nothing is posted
\* and the response is 200.
C13_OneProviderPerRoute ==
    [][/\ (req'[1].calls \cap ProviderNames) \ req[1].calls # {}
            => /\ req[1].pc = "provider" /\ req[1].calls \cap ProviderNames = {}
               /\ req'[1].calls \cap ProviderNames = {ProviderOfRoute[req[1].route_result]}
       /\ (req'[1].route_result # None /\ req'[1].pc \in {"post", "done"}) =>
            IF req'[1].route_result = "ignore"
            THEN /\ req'[1].calls \cap ProviderNames = {} /\ req'[1].posts = 0
                 /\ req'[1].pc = "done" /\ req'[1].resp = "ignore_query"
                 /\ ResponseCode(req'[1].resp) = 200
            ELSE req'[1].calls \cap ProviderNames = {ProviderOfRoute[req'[1].route_result]}
       /\ req'[1].route_result = None => req'[1].calls \cap ProviderNames = {}]_vars

\* C13 witness: an unrecognized route value was answered by the Contextual
\* Provider and the reply was posted.
C13_Witness ==
    /\ R.route_result = "unrecognized" /\ R.calls \cap ProviderNames = {"ContextualPath"}
    /\ R.posts = 1 /\ R.resp = "processed"

\* The UTF-8 length of a text.
RECURSIVE Utf8Len(_)
Utf8Len(text) == IF text = <<>> THEN 0 ELSE Utf8Width(Head(text)) + Utf8Len(Tail(text))

IsPrefix(p, s) == Len(p) <= Len(s) /\ \A i \in 1..Len(p) : p[i] = s[i]

EndsWithNotice(s) ==
    Len(s) >= Len(Notice) /\ SubSeq(s, Len(s) - Len(Notice) + 1, Len(s)) = Notice

BeforeNotice(s) == SubSeq(s, 1, Len(s) - Len(Notice))

\* C14: a text of at most `limit` bytes is returned unchanged; a longer one
\* gives a result that ends with the notice, whose part before the notice is
\* a prefix of the input, and whose UTF-8 length is at most the limit; so the
\* text handed to post-creation is never longer than the limit.
C14_TruncatedWithinLimit ==
    \A out \in {payload_sent[i] : i \in 1..Len(payload_sent)} :
        /\ Utf8Len(payload_text) <= Limit => out = payload_text
        /\ Utf8Len(payload_text) > Limit =>
            /\ EndsWithNotice(out)
            /\ IsPrefix(BeforeNotice(out), payload_text)
        /\ Utf8Len(out) <= Limit

\* C14 witness: a text over the limit whose two-byte character straddles the
\* working limit was truncated before that character.
C14_Witness ==
    /\ payload_sent # <<>> /\ Utf8Len(payload_text) > Limit
    /\ Len(payload_text) >= Limit - NoticeBytes
    /\ \A i \in 1..(Limit - NoticeBytes - 1) : payload_text[i] = "a"
    /\ payload_text[Limit - NoticeBytes] = "e-acute"
    /\ payload_sent[1] = [i \in 1..(Limit - NoticeBytes - 1) |-> "a"] \o Notice

\* The byte-trimmed text: the longest prefix of at most n bytes.
LongestPrefixWithin(text, n) ==
    SubSeq(text, 1, CHOOSE i \in 0..Len(text) :
                        /\ Utf8Len(SubSeq(text, 1, i)) <= n
                        /\ \A j \in (i + 1)..Len(text) : Utf8Len(SubSeq(text, 1, j)) > n)

\* The positions of the sentence-ending marks of a text.
MarksOf(text) == {i \in 1..Len(text) : text[i] \in {".", "!", "?"}}

\* C15 as stated: an over-limit text is cut immediately after the last '.',
\* '!' or '?' of the byte-trimmed text, wherever that mark is (the first
\* character included), and the trimmed text is kept whole only when it has
\* none of these marks; the notice is then appended.
C15_CutAfterLastMark ==
    \A out \in {payload_sent[i] : i \in 1..Len(payload_sent)} :
        Utf8Len(payload_text) > Limit =>
            LET trimmed == LongestPrefixWithin(payload_text, Limit - NoticeBytes)
                marks == MarksOf(trimmed)
            IN  out = (IF marks = {} THEN trimmed
                       ELSE SubSeq(trimmed, 1, CHOOSE i \in marks : \A j \in marks : i >= j))
                      \o Notice

Pieces(text) == {text[i] : i \in 1..Len(text)}
Apologies(user_name) == {NamedApology(user_name), ContextualApology, HybridApology}

\* C16 as stated: handle_query of each provider never raises, and whenever an
\* internal step fails it returns a string that is an apology addressed to
\* the user by name.
C16_ApologyByName ==
    \A out \in {provider_out[i] : i \in 1..Len(provider_out)} :
        /\ out.kind # "raise"
        /\ provider_in.failing # {} =>
            /\ out.kind = "str"
            /\ out \in Apologies(provider_in.user_name)
            /\ provider_in.user_name \in Pieces(out.text)

\* The steps whose failure a provider absorbs: the query goes on with empty
\* context.
Absorbed == {"catalog", "search", "transcript", "context", "episodes"}

\* C16 amended: handle_query never raises. Failed catalog loads, searches and
\* transcript reads are absorbed and the completion's result is returned; a
\* failed completion call (or token count) gives a fixed apology string, which
\* names the user in the Metadata Provider and, for a failure outside the
\* completion call, in the Hybrid Provider, and does not otherwise.
C16_NeverRaisesFixedApology ==
    \A out \in {provider_out[i] : i \in 1..Len(provider_out)} :
        /\ out.kind # "raise"
        /\ provider_in.failing \subseteq Absorbed =>
            out = handle_query(provider, provider_in.user_name, {}, provider_in.content)
        /\ ~(provider_in.failing \subseteq Absorbed) =>
            /\ out.kind = "str" /\ out \in Apologies(provider_in.user_name)
            /\ provider_in.user_name \in Pieces(out.text)
                <=> \/ provider = "MetadataPath"
                    \/ provider = "HybridPath" /\ "tokens" \in provider_in.failing

\* C16 witness: the Metadata Provider's completion call failed and the
\* apology names the user.
C16_Witness ==
    /\ provider = "MetadataPath" /\ provider_in.failing = {"llm"}
    /\ provider_in.user_name = "alice"
    /\ provider_out = <<NamedApology("alice")>>

\* C17: when the post-creation call fails (an error status or a timeout) the
\* webhook response is HTTP 500 with the fixed body {"error": "Unknown
\* error"}: never the success response, and nothing of the failure in the
\* body.
C17_PostFailureIs500 ==
    R.post_outcome \in {"http_error", "timeout"} =>
        /\ R.pc = "done" /\ R.resp # "processed"
        /\ ResponseCode(R.resp) = 500
        /\ ResponseBody(R.resp) = [field |-> "error", text |-> "Unknown error"]

\* C17 witness: the post-creation request of a routed reply timed out.
C17_Witness ==
    /\ R.post_outcome = "timeout" /\ R.posts = 1 /\ R.llm_response = "reply"
    /\ R.resp = "unknown_error"

\* The payloads C18 calls malformed.
MalformedKinds == {"no_data", "no_type", "cast_null_data", "cast_no_hash", "cast_no_text_author"}

\* C18 as stated: a malformed payload (no body, no type, or a cast.created
\* event lacking data.hash, data.text, data.author.username or
\* data.author.fid) is answered 400 with nothing inserted into the processed
\* set, no external call and no post.
C18_MalformedIs400 ==
    [][req'[1].kind \in MalformedKinds =>
            /\ req'[1].pc = "done" /\ ResponseCode(req'[1].resp) = 400
            /\ ~req'[1].marked /\ req'[1].calls = {} /\ req'[1].posts = 0
            /\ processed_casts' = processed_casts]_vars

\* C19: a webhook whose type is not cast.created is answered 200 with the
\* "ignored event type" status and changes nothing: the processed set is as
\* it was, the message is not marked, and no summary, fetch, router, provider
\* or post-creation call is made.
C19_OtherEventTypeIgnored ==
    [][req'[1].kind = "other_type" =>
            /\ req'[1].pc = "done" /\ req'[1].resp = "ignored_event"
            /\ ResponseCode(req'[1].resp) = 200 /\ ResponseBody(req'[1].resp).field = "status"
            /\ ~req'[1].marked /\ req'[1].gate = None
            /\ req'[1].calls = {} /\ req'[1].posts = 0
            /\ processed_casts' = processed_casts]_vars

\* C19 witness: an event of another type arrived while m was in the
\* processed set, and was ignored.
C19_Witness ==
    /\ R.kind = "other_type" /\ R.pc = "done" /\ R.resp = "ignored_event"
    /\ Contains(processed_casts, m, now)

\* A delivery of m in simulation mode passes the gate, and its mark carries
\* the current time.
SimulationBypassesAndMarks ==
    /\ (DeliveryOf(m) /\ req'[1].dry_run) => (req'[1].gate = "passed" /\ req'[1].pc = "mark")
    /\ (MarkOf(m) /\ req[1].dry_run) =>
            /\ lastMarked' = now /\ lastMarkedDry'
            /\ Marked(processed_casts', now)

\* C20 as stated: in simulation mode the gate never rejects a delivery and
\* the message is still marked with the current time, so a later
\* non-simulation delivery of it within the TTL is rejected as a duplicate.
C20_SimulationMarkRejectsLater ==
    [][/\ SimulationBypassesAndMarks
       /\ (DeliveryOf(m) /\ ~req'[1].dry_run /\ lastMarkedDry /\ WithinTTL)
            => RejectedAsDuplicate(req'[1])]_vars

\* C20 amended: the same, the later delivery arriving before the capacity
\* bound has evicted m.
C20_SimulationMarkRejectsLaterUnlessEvicted ==
    [][/\ SimulationBypassesAndMarks
       /\ (DeliveryOf(m) /\ ~req'[1].dry_run /\ lastMarkedDry /\ WithinTTL /\ NotEvicted)
            => RejectedAsDuplicate(req'[1])]_vars

\* C20 witness: m, already marked, was processed again in simulation mode,
\* and a later live delivery within the TTL of that mark was rejected.
C20_Witness ==
    /\ RejectedAsDuplicate(R) /\ R.cast_hash = m /\ ~R.dry_run
    /\ lastMarkedDry /\ WithinTTL /\ lastMarked > epoch.start /\ now > lastMarked


\* The _prefilter_metadata call in progress.
Call == prefilter_call[1]

IsSortedByAiredDate(episodes) ==
    \A i, j \in 1..Len(episodes) : (i < j) => (episodes[i].aired_date <= episodes[j].aired_date)

\* The episodes of a list as a provider hands them out.
Shown(episodes) == {cleaned_episode(episodes[i]) : i \in 1..Len(episodes)}

\* Each of the episodes once, and no other.
IsEachOnce(result, episodes) ==
    /\ Len(result) = Cardinality(episodes)
    /\ {result[i] : i \in 1..Len(result)} = episodes

OneWordAliases == {v[1] : v \in {u \in AllVariants : Len(u) = 1}}

\* The query has no host alias or host name token, no series alias and no
\* title word that is not a stop word.
MatchesNothing(query, catalog) ==
    /\ query_words(query) \cap (OneWordAliases \cup all_hosts(catalog)) = {}
    /\ ~found_series(query)
    /\ query_words(query) \cap (title_words(catalog) \ stop_words) = {}

\* C21: when the query matches nothing (no host alias or host name token, no
\* series alias, no title word that is not a stop word), _prefilter_metadata
\* returns the whole catalog, every episode once, sorted by aired_date
\* ascending.
C21_NoMatchReturnsWholeCatalog ==
    (prefilter_call # <<>> /\ MatchesNothing(Call.query, Call.self_metadata))
        => /\ IsEachOnce(Call.result, Shown(Call.self_metadata))
           /\ IsSortedByAiredDate(Call.result)

\* A query of a word that matches nothing, on an unsorted catalog of two
\* episodes, returns the two in the order of their dates.
C21_Witness ==
    /\ prefilter_call # <<>>
    /\ Call.query = <<"hello">>
    /\ MatchesNothing(Call.query, Call.self_metadata)
    /\ Len(Call.self_metadata) = MaxEpisodes
    /\ ~IsSortedByAiredDate(Call.self_metadata)
    /\ Len(Call.result) = MaxEpisodes
    /\ IsSortedByAiredDate(Call.result)


\* The episodes of the catalog that have the host.
EpisodesOfHost(host, catalog) == SelectSeq(catalog, LAMBDA e : host \in e.hosts)

\* The query is the alias and nothing else.
IsTheAlias(query, variant) ==
    /\ Len(query) = Len(variant)
    /\ \A k \in 1..Len(variant) : StripToken(LowerToken(query[k])) = variant[k]

\* C22: for a query that is a known host alias and nothing else, the
\* Metadata Provider's filter returns exactly the catalog's episodes that
\* have the alias's canonical host, sorted by aired_date ascending.
C22_AliasOnlyReturnsHostEpisodes ==
    \A i \in 1..Len(name_variations) : \A variant \in name_variations[i].variants :
        (/\ prefilter_call # <<>>
         /\ catalog_path = "MetadataPath"
         /\ IsTheAlias(Call.query, variant)
         /\ ~found_series(Call.query)
         /\ ~found_title_match(Call.query, Call.self_metadata))
            => /\ IsEachOnce(Call.result,
                             Shown(EpisodesOfHost(name_variations[i].name, Call.self_metadata)))
               /\ IsSortedByAiredDate(Call.result)


EpisodesIn(catalog) == {catalog[i] : i \in 1..Len(catalog)}

\* What each step matches in the catalog, whatever the other steps select.
HostMatches(query, catalog) ==
    {e \in EpisodesIn(catalog) : e.hosts \cap mentioned_hosts(query, catalog) # {}}
SeriesMatches(query, catalog) ==
    {e \in EpisodesIn(catalog) :
        \E i \in 1..Len(series_variations) : /\ SeriesMentioned(series_variations[i], query)
                                             /\ e.series = series_variations[i].name}
TitleMatches(query, catalog) ==
    {e \in EpisodesIn(catalog) : (query_words(query) \ stop_words) \cap e.title # {}}
AllMatches(query, catalog) ==
    HostMatches(query, catalog) \cup SeriesMatches(query, catalog) \cup TitleMatches(query, catalog)

\* The result is the union of the three steps' matches, each episode once,
\* sorted by aired_date, and all of it from the catalog.
IsSortedUnionOfMatches ==
    /\ IsEachOnce(Call.result, {cleaned_episode(e) : e \in AllMatches(Call.query, Call.self_metadata)})
    /\ IsSortedByAiredDate(Call.result)
    /\ \A i \in 1..Len(Call.result) : Call.result[i] \in Shown(Call.self_metadata)

HasDistinctIds(catalog) ==
    \A i, j \in 1..Len(catalog) : (i # j) => (catalog[i].episode # catalog[j].episode)

\* C25 as stated: for every catalog and query with at least one match, the
\* result of _prefilter_metadata is the aired_date-sorted union of the host,
\* series and title matches, every episode exactly once, and every returned
\* episode is a catalog episode.
C25_SortedUnionOfSteps ==
    (prefilter_call # <<>> /\ ~MatchesNothing(Call.query, Call.self_metadata))
        => IsSortedUnionOfMatches

\* C25, amended: the same, for a catalog whose episode ids are distinct.
C25_SortedUnionOfStepsDistinctIds ==
    (/\ prefilter_call # <<>>
     /\ ~MatchesNothing(Call.query, Call.self_metadata)
     /\ HasDistinctIds(Call.self_metadata))
        => IsSortedUnionOfMatches

\* An episode matched by the host step and by the series step and another
\* matched by the title step only: the result is the two, once each.
C25_Witness ==
    /\ prefilter_call # <<>>
    /\ HasDistinctIds(Call.self_metadata)
    /\ HostMatches(Call.query, Call.self_metadata) \cap SeriesMatches(Call.query, Call.self_metadata) # {}
    /\ TitleMatches(Call.query, Call.self_metadata) \ HostMatches(Call.query, Call.self_metadata) # {}
    /\ Len(Call.result) = 2
    /\ IsSortedUnionOfMatches


\* C26: the catalog a provider holds stays the one it loaded, in content and
\* in order, whatever queries it is asked, those that match nothing included.
C26_CatalogImmutable == metadata = load_metadata(catalog_path, raw_metadata)

\* C30: on a catalog that is not empty _prefilter_metadata never returns an
\* empty list: when the three steps together select no episode, it returns
\* the whole catalog.
C30_NeverEmptyOnNonEmptyCatalog ==
    (prefilter_call # <<>> /\ Call.self_metadata # <<>>) => Call.result # <<>>


\* The responses to a recognized outcome: a filtered request or a processed
\* one.
RecognizedOutcomes ==
    {"ignored_event", "duplicate", "self_mention", "depth_limit", "ignore_query", "processed"}

\* C23: every response of handle_webhook_v2 has a `status` or an `error`
\* field; its code is 200 for every recognized outcome (filtered or
\* processed), 400 for malformed input and 500 for an internal failure, and
\* never another.
C23_StatusOrErrorAndCode ==
    (R.pc = "done")
        => /\ ResponseBody(R.resp).field \in {"status", "error"}
           /\ ResponseCode(R.resp) \in {200, 400, 500}
           /\ (R.resp \in RecognizedOutcomes) => (ResponseCode(R.resp) = 200)
           /\ (R.kind \in {"no_data", "no_type"} \cup MalformedKinds) => (ResponseCode(R.resp) = 400)
           /\ (R.resp = "unknown_error") => (ResponseCode(R.resp) = 500)


\* The result of the reconstruction, once it has run.
Results == {thread_result[i] : i \in 1..Len(thread_result)}

\* C24: every returned turn is of a cast by the original author (role user)
\* or by the bot (role assistant), the turns are oldest first, and no two
\* consecutive turns have the same role.
C24_TurnsAlternateOldestFirst ==
    \A res \in Results :
        /\ \A i \in 1..Len(res.messages) :
              LET author == thread_chain[res.messages[i].content]
              IN  \/ author = "user" /\ res.messages[i].role = "user"
                  \/ author = "bot" /\ res.messages[i].role = "assistant"
        /\ \A i, j \in 1..Len(res.messages) :
              (i < j) => (res.messages[i].content > res.messages[j].content)
        /\ \A i \in 1..(Len(res.messages) - 1) :
              res.messages[i].role # res.messages[i + 1].role

\* C24 witness: a thread with two casts in a row by the bot; the turns
\* returned are fewer than the casts before the trigger, and there are at
\* least two.
C24_Witness ==
    /\ thread_result # <<>> /\ ~thread_result[1].failed
    /\ \E i \in 2..(Len(thread_chain) - 1) : thread_chain[i] = "bot" /\ thread_chain[i + 1] = "bot"
    /\ \A i \in 1..Len(thread_chain) : thread_chain[i] # "other"
    /\ Len(thread_result[1].messages) >= 2
    /\ Len(thread_result[1].messages) < Len(thread_chain) - 1

\* C29: whatever the chain and however the reconstruction ends (success,
\* third-party break, fetch failure), it returns at most as many turns as the
\* depth it returns.
C29_TurnsAtMostDepth ==
    \A res \in Results : Len(res.messages) <= res.depth

\* C29 witness: an alternating chain of MaxChain casts, reconstructed to its
\* root: the turns are as many as the depth.
C29_Witness ==
    /\ thread_result # <<>> /\ ~thread_result[1].failed
    /\ thread_chain = AlternatingChain(MaxChain)
    /\ Len(thread_result[1].messages) = thread_result[1].depth
    /\ thread_result[1].depth > 0


\* C28: with simulation off, a delivery of m rejected as a duplicate leaves
\* the processed set as it was, the entry of m still expiring the TTL after
\* the delivery that was accepted (its last mark) and no later: the rejected
\* delivery falls within that TTL, and a delivery at or after the TTL's end
\* is not rejected, however many duplicates came in between.
C28_RejectionLeavesCacheUnchanged ==
    [][(DeliveryOf(m) /\ ~req'[1].dry_run) =>
            /\ (req'[1].gate = "duplicate")
                    => /\ processed_casts' = processed_casts
                       /\ Marked(processed_casts', lastMarked')
                       /\ WithinTTL
            /\ (lastMarked >= 0 /\ now - lastMarked >= TTL) => (req'[1].gate = "passed")]_vars

\* C28 witness: m was accepted at time 0 and delivered twice more; the third
\* delivery, a tick later, is rejected and the entry still expires at the TTL.
C28_Witness ==
    /\ RejectedAsDuplicate(R) /\ R.cast_hash = m /\ ~R.dry_run
    /\ deliveries = 3 /\ seen = {m} /\ ~lastMarkedDry
    /\ lastMarked = 0 /\ now = TickSeconds
    /\ Marked(processed_casts, 0)


\* The depths seen at the author's successive messages never decrease.
DepthsNeverDecrease ==
    \A i, j \in 1..Len(conv_depths) : (i < j) => (conv_depths[i] <= conv_depths[j])

\* The handler declines only a depth above 8, and once it has, the last
\* reply it posted was composed with the final-message instruction, at depth
\* 7 or 8.
LastReplyWasFarewell ==
    conv_stopped =>
        /\ conv_depths[Len(conv_depths)] > DepthLimit
        /\ \A i \in 1..(Len(conv_depths) - 1) : conv_depths[i] <= DepthLimit
        /\ conv_reply # <<>>
        /\ conv_reply[1].conversation_state = "final_message"
        /\ conv_reply[1].depth \in {DepthLimit - 1, DepthLimit}

\* C27: in a thread where the original author and the bot alternate (LLM
\* usage on, no fetch failing, no "ignore" route), the depth seen at the
\* author's successive messages never decreases, the bot eventually stops
\* replying, at the first message whose depth is above 8, and its last reply
\* before that was composed with the final-message instruction (depth 7 or 8).
C27_ConversationEndsWithFarewell ==
    /\ [](DepthsNeverDecrease /\ LastReplyWasFarewell)
    /\ <>conv_stopped

\* C27 witness: the handler has declined the author's sixth message, after a
\* last reply composed at depth 8.
C27_Witness ==
    /\ conv_stopped
    /\ Len(conv_depths) = 6
    /\ conv_reply[1].depth = DepthLimit
    /\ conv_reply[1].conversation_state = "final_message"

====
